---- MODULE Spec2Model ----
(***************************************************************************)
(* Model of pyscad.py: the Selection / Node / Object algebra, the          *)
(* compiler compile_scad and the writer write_scad.                         *)
(***************************************************************************)
EXTENDS Integers, Sequences, FiniteSets, TLC

VARIABLES
    obj,        \* the Object the script is building
    nops,       \* number of Object operations applied so far
    last,       \* the operation that produced obj, with its operands
    plain,      \* obj was built by +, *, -, unary - and the folds alone, from
                \* Objects created from void or node selections
    pc,         \* position of write_scad
    lines,      \* the lines compile_scad yields for obj
    err,        \* the exception compile_scad raised, "" when none
    wpos,       \* number of lines write_scad has written so far
    fs,         \* the file system: file name -> content (Absent when no such file)
    sel_args,   \* argument list of the last Selection operation
    sel_op,     \* name of the last Selection operation ("" before the first)
    sel_res,    \* result of the last Selection operation
    sel0,       \* the Selection the chain of inversions started from
    ninv        \* number of Selection.invert applications on sel_res since sel0

vars == <<obj, nops, last, plain, pc, lines, err, wpos, fs,
          sel_args, sel_op, sel_res, sel0, ninv>>

objVars == <<obj, nops, last, plain>>
fileVars == <<pc, lines, err, wpos, fs>>
selVars == <<sel_args, sel_op, sel_res, sel0, ninv>>

----------------------------------------------------------------------------
(* Bounds *)

MaxOps == 2         \* Object operations per behaviour
MaxList == 2        \* length of the lists handed to Selection.intersect / union
MaxInvert == 3      \* applications of Selection.invert in a chain
MaxFold == 1        \* length of the sequences handed to the union / intersect folds

----------------------------------------------------------------------------
(* Generic sequence helpers *)

RECURSIVE Concat(_)
Concat(ss) == IF ss = <<>> THEN <<>> ELSE Head(ss) \o Concat(Tail(ss))

Map(f(_), s) == [i \in 1..Len(s) |-> f(s[i])]

Reverse(s) == [i \in 1..Len(s) |-> s[Len(s) + 1 - i]]

Range(s) == {s[i] : i \in 1..Len(s)}

----------------------------------------------------------------------------
(* Node *)

PrimitiveNode(text) == [kind |-> "primitive", text |-> text]

CompositeNode(text, nodes) == [kind |-> "composite", text |-> text, nodes |-> nodes]

child_nodes(n) == IF n.kind = "primitive" THEN <<>> ELSE n.nodes

Node_compose(text, nodes) == CompositeNode(text, nodes)

Node_create(text) == PrimitiveNode(text)

Node_intersect(nodes) ==
    IF Len(nodes) > 1 THEN Node_compose("intersection()", nodes) ELSE nodes[1]

Node_union(nodes) ==
    IF Len(nodes) > 1 THEN Node_compose("union()", nodes) ELSE nodes[1]

\* the subtraction rendered with the wrong operator
Node_minus_as_intersection(left, right) ==
    Node_compose("intersection()", <<left, right>>)

Node_minus(left, right) == Node_compose("difference()", <<left, right>>)

----------------------------------------------------------------------------
(* Selection *)

void_selection == [kind |-> "void"]

NodeSelection(n) == [kind |-> "node", node |-> n]

InvertedSelection(selection) == [kind |-> "inverted", selection |-> selection]

\* void_selection.node is a plain method, so reading the attribute gives the
\* bound method and not a Node
bound_method == [kind |-> "bound_method"]

RECURSIVE void(_)
void(s) ==
    IF s.kind = "inverted" THEN void(s.selection) ELSE s.kind = "void"

RECURSIVE node(_)
node(s) ==
    IF s.kind = "inverted" THEN node(s.selection)
    ELSE IF s.kind = "node" THEN s.node ELSE bound_method

\* a polarity that does not toggle: any wrapper counts as inverted
inverted_any_wrapper(s) == s.kind = "inverted"

RECURSIVE inverted(_)
inverted(s) ==
    IF s.kind = "inverted" THEN ~inverted(s.selection) ELSE FALSE

Selection_invert(selection) == InvertedSelection(selection)

Selection_create(n) == NodeSelection(n)

\* inverted_nodes, as the loop of Selection.intersect collects it
RECURSIVE inverted_nodes_of(_)
inverted_nodes_of(selections) ==
    IF selections = <<>> THEN <<>>
    ELSE LET i == Head(selections)
         IN  (IF inverted(i) /\ ~void(i) THEN <<node(i)>> ELSE <<>>)
             \o inverted_nodes_of(Tail(selections))

\* nodes, as the loop of Selection.intersect collects it
RECURSIVE nodes_of(_)
nodes_of(selections) ==
    IF selections = <<>> THEN <<>>
    ELSE LET i == Head(selections)
         IN  (IF ~inverted(i) /\ ~void(i) THEN <<node(i)>> ELSE <<>>)
             \o nodes_of(Tail(selections))

\* what Selection.intersect returns when its lists hold no node at all
intersect_empty == void_selection

\* the intersection without the early return for a non-inverted void input
Selection_intersect_no_shortcut(selections) ==
    LET inverted_nodes == inverted_nodes_of(selections)
        nodes == nodes_of(selections)
    IN  IF inverted_nodes # <<>>
        THEN IF nodes # <<>>
             THEN Selection_create(Node_minus(Node_intersect(nodes),
                                              Node_union(inverted_nodes)))
             ELSE Selection_invert(Selection_create(Node_union(inverted_nodes)))
        ELSE IF nodes # <<>>
             THEN Selection_create(Node_intersect(nodes))
             ELSE intersect_empty

Selection_intersect(selections) ==
    LET inverted_nodes == inverted_nodes_of(selections)
        nodes == nodes_of(selections)
    IN  IF \E k \in 1..Len(selections) :
               ~inverted(selections[k]) /\ void(selections[k])
        THEN void_selection
        ELSE IF inverted_nodes # <<>>
        THEN IF nodes # <<>>
             THEN Selection_create(Node_minus(Node_intersect(nodes),
                                              Node_union(inverted_nodes)))
             ELSE Selection_invert(Selection_create(Node_union(inverted_nodes)))
        ELSE IF nodes # <<>>
             THEN Selection_create(Node_intersect(nodes))
             ELSE intersect_empty

\* De Morgan without the outer inversion
Selection_union_no_invert(selections) ==
    Selection_intersect(Map(Selection_invert, selections))

Selection_union(selections) ==
    Selection_invert(Selection_intersect(Map(Selection_invert, selections)))

Selection_transform(text, selection) ==
    IF void(selection) THEN selection
    ELSE LET transformed_selection ==
                 NodeSelection(Node_compose(text, <<node(selection)>>))
         IN  IF inverted(selection)
             THEN InvertedSelection(transformed_selection)
             ELSE transformed_selection

----------------------------------------------------------------------------
(* Selector *)

true_selector == "true_selector"
false_selector == "false_selector"

Selector_neg(a) == IF a = true_selector THEN false_selector ELSE true_selector

Selector_add(a, b) == IF a = true_selector THEN a ELSE b

Selector_mul(a, b) == IF a = true_selector THEN b ELSE a

Selector_sub(a, b) == Selector_mul(a, Selector_neg(b))

\* bool(x), as used by compile_scad; Python's True and False are the strings
Selector_bool(a) == IF a = true_selector THEN "True" ELSE "False"

\* the operations handed to Object.compose; "always" stands for a caller's
\* operation that maps every combination to the same selector
apply(operation, selectors) ==
    CASE operation = "add" -> Selector_add(selectors[1], selectors[2])
      [] operation = "mul" -> Selector_mul(selectors[1], selectors[2])
      [] operation = "sub" -> Selector_sub(selectors[1], selectors[2])
      [] operation = "neg" -> Selector_neg(selectors[1])
      [] operation = "bool" -> Selector_bool(selectors[1])
      [] operation = "always" -> true_selector

----------------------------------------------------------------------------
(* Object: an ordered dict, a sequence of [selector, selection] items *)

get_selection(o, selector) ==
    IF \E i \in 1..Len(o) : o[i].selector = selector
    THEN o[CHOOSE i \in 1..Len(o) : o[i].selector = selector].selection
    ELSE void_selection

selectors(o) == [i \in 1..Len(o) |-> o[i].selector]

\* itertools.product: the last factor varies fastest
RECURSIVE product(_)
product(ss) ==
    IF ss = <<>> THEN << <<>> >>
    ELSE LET rest == product(Tail(ss))
             h == Head(ss)
         IN  [n \in 1..(Len(h) * Len(rest)) |->
                 <<h[((n - 1) \div Len(rest)) + 1]>>
                 \o rest[((n - 1) % Len(rest)) + 1]]

\* a dict in insertion order: a sequence of [k, v] with distinct k
RECURSIVE _tally(_)
_tally(tuples) ==
    IF tuples = <<>> THEN <<>>
    ELSE LET res == _tally(SubSeq(tuples, 1, Len(tuples) - 1))
             t == tuples[Len(tuples)]
         IN  IF \E i \in 1..Len(res) : res[i].k = t[1]
             THEN [i \in 1..Len(res) |->
                      IF res[i].k = t[1]
                      THEN [k |-> res[i].k, v |-> Append(res[i].v, t[2])]
                      ELSE res[i]]
             ELSE Append(res, [k |-> t[1], v |-> <<t[2]>>])

iter_selections(operation, objects) ==
    LET combos == product(Map(selectors, objects))
    IN  [c \in 1..Len(combos) |->
            <<apply(operation, combos[c]),
              [j \in 1..Len(objects) |-> get_selection(objects[j], combos[c][j])]>>]

combine(groups) == Selection_union(Map(Selection_intersect, groups))

groups_of(groups_by_selector, selector) ==
    groups_by_selector[CHOOSE i \in 1..Len(groups_by_selector) :
                          groups_by_selector[i].k = selector].v

inverse_groups_of(groups_by_selector, selector) ==
    Concat([i \in 1..Len(groups_by_selector) |->
               IF groups_by_selector[i].k # selector
               THEN groups_by_selector[i].v ELSE <<>>])

\* the branch compute_selection takes: TRUE for the inverted form
use_inverse(groups, inverse_groups) == Len(groups) > Len(inverse_groups)

compute_selection(groups_by_selector, selector) ==
    LET groups == groups_of(groups_by_selector, selector)
        inverse_groups == inverse_groups_of(groups_by_selector, selector)
    IN  IF use_inverse(groups, inverse_groups)
        THEN Selection_invert(combine(inverse_groups))
        ELSE combine(groups)

compose(operation, objects) ==
    LET groups_by_selector == _tally(iter_selections(operation, objects))
    IN  [i \in 1..Len(groups_by_selector) |->
            [selector |-> groups_by_selector[i].k,
             selection |-> compute_selection(groups_by_selector,
                                             groups_by_selector[i].k)]]

Object_create(selection) ==
    << [selector |-> true_selector, selection |-> selection],
       [selector |-> false_selector, selection |-> Selection_invert(selection)] >>

Object_add(a, b) == compose("add", <<a, b>>)
Object_mul(a, b) == compose("mul", <<a, b>>)
Object_sub(a, b) == compose("sub", <<a, b>>)
Object_neg(a) == compose("neg", <<a>>)

_transform(o, text) ==
    [i \in 1..Len(o) |->
        [selector |-> o[i].selector,
         selection |-> Selection_transform(text, o[i].selection)]]

\* functools.reduce(operator.__add__, object_seq, Object.create(void_selection))
RECURSIVE union(_)
union(object_seq) ==
    IF object_seq = <<>> THEN Object_create(void_selection)
    ELSE Object_add(union(SubSeq(object_seq, 1, Len(object_seq) - 1)),
                    object_seq[Len(object_seq)])

\* functools.reduce(operator.__mul__, object_seq, -Object.create(void_selection))
RECURSIVE intersect(_)
intersect(object_seq) ==
    IF object_seq = <<>> THEN Object_neg(Object_create(void_selection))
    ELSE Object_mul(intersect(SubSeq(object_seq, 1, Len(object_seq) - 1)),
                    object_seq[Len(object_seq)])

----------------------------------------------------------------------------
(* compile_scad *)

\* _str_call(name) with no arguments
_str_call(function) == function \o "()"

\* a line is its tab count and the text after the tabs
Line(text) == [indent |-> 0, text |-> text]

\* '\t' + j for every line j
Indented(ls) == [i \in 1..Len(ls) |-> [ls[i] EXCEPT !.indent = @ + 1]]

RECURSIVE Node_iter_lines(_, _)
Node_iter_lines(n, node_replacements) ==
    IF n.kind = "primitive" THEN <<Line(n.text \o ";")>>
    ELSE LET iter_node_lines(c) ==
                 Indented(Node_iter_lines(node_replacements[c], node_replacements))
         IN  IF Len(n.nodes) > 1
             THEN <<Line(n.text \o " {")>>
                  \o Concat([i \in 1..Len(n.nodes) |-> iter_node_lines(n.nodes[i])])
                  \o <<Line("}")>>
             ELSE <<Line(n.text)>> \o iter_node_lines(n.nodes[1])

_Module(name, n) == [name |-> name, node |-> n]

_Module_iter_lines(m, node_replacements) ==
    <<Line("module " \o m.name \o "()")>>
    \o Indented(Node_iter_lines(m.node, node_replacements))

_Module_reference(m) == Node_create(_str_call(m.name))

empty_walk == [nodes_set |-> {}, nodes_list |-> <<>>, reused_nodes |-> {}]

RECURSIVE walk_nodes(_, _)
RECURSIVE walk_children(_, _)
walk_children(children, w) ==
    IF children = <<>> THEN w
    ELSE walk_children(Tail(children), walk_nodes(Head(children), w))

walk_nodes(n, w) ==
    IF n \in w.nodes_set
    THEN [w EXCEPT !.reused_nodes = @ \cup {n}]
    ELSE LET w1 == [w EXCEPT !.nodes_set = @ \cup {n}]
             w2 == walk_children(child_nodes(n), w1)
         IN  [w2 EXCEPT !.nodes_list = Append(@, n)]

\* the second loop without reversed()
emission_order_forward(nodes_list) == nodes_list

\* the order in which the second loop of compile_scad visits nodes_list
emission_order(nodes_list) == Reverse(nodes_list)

\* modules, as the second loop builds it
RECURSIVE build_modules(_, _, _)
build_modules(order, reused_nodes, modules) ==
    IF order = <<>> THEN modules
    ELSE LET i == Head(order)
         IN  build_modules(Tail(order), reused_nodes,
                 IF i \in reused_nodes
                 THEN Append(modules,
                             _Module("node_" \o ToString(Len(modules) + 1), i))
                 ELSE modules)

\* a second loop that never substitutes the module reference
replacement_node_inline(i, reused_nodes, modules) == i

\* node_replacements[i], as the second loop sets it
replacement_node(i, reused_nodes, modules) ==
    IF i \in reused_nodes
    THEN _Module_reference(modules[CHOOSE k \in 1..Len(modules) : modules[k].node = i])
    ELSE i

\* the checks without the one for an inverted root
root_error_void_only(selection) ==
    IF void(selection) THEN "The top-level node is void." ELSE ""

\* the checks compile_scad makes on the selection of the truthy key
root_error(selection) ==
    IF inverted(selection) THEN "The top-level node is inverted."
    ELSE IF void(selection) THEN "The top-level node is void."
    ELSE ""

root_selection(object) == get_selection(compose("bool", <<object>>), "True")

\* the modules compile_scad declares for a root node
modules_of(root_node) ==
    LET w == walk_nodes(root_node, empty_walk)
    IN  build_modules(emission_order(w.nodes_list), w.reused_nodes, <<>>)

\* a compiler that stops after the root program and yields no declarations
compile_node_no_modules(root_node) ==
    LET w == walk_nodes(root_node, empty_walk)
        modules == build_modules(emission_order(w.nodes_list), w.reused_nodes, <<>>)
        node_replacements ==
            [i \in w.nodes_set |-> replacement_node(i, w.reused_nodes, modules)]
    IN  Node_iter_lines(root_node, node_replacements)

compile_node(root_node) ==
    LET w == walk_nodes(root_node, empty_walk)
        modules == build_modules(emission_order(w.nodes_list), w.reused_nodes, <<>>)
        node_replacements ==
            [i \in w.nodes_set |-> replacement_node(i, w.reused_nodes, modules)]
    IN  Node_iter_lines(root_node, node_replacements)
        \o Concat([k \in 1..Len(modules) |->
                      <<Line("")>> \o _Module_iter_lines(modules[k], node_replacements)])

\* the outcome of iterating compile_scad(object): the exception raised and
\* the lines yielded before it
compile_scad(object) ==
    LET selection == root_selection(object)
    IN  IF root_error(selection) # ""
        THEN [err |-> root_error(selection), lines |-> <<>>]
        ELSE [err |-> "", lines |-> compile_node(node(selection))]

----------------------------------------------------------------------------
(* The inputs of the script *)

node_a == Node_create(_str_call("cube"))
node_b == Node_create(_str_call("sphere"))

\* the Selections a script hands to Object.create
Seeds == {void_selection, Selection_create(node_a), Selection_create(node_b)}

\* the Selections the first Object is created from
InitSeeds == Seeds \cup {Selection_invert(Selection_create(node_a))}

\* the Objects a script combines the current one with: a fresh shape, the
\* current Object itself, or the complement of its true selection
Operands(o) ==
    {Object_create(s) : s \in Seeds}
    \cup {o, Object_create(Selection_invert(get_selection(o, true_selector)))}

\* the sequences handed to the union / intersect folds: fresh shapes and the
\* current Object
FoldSeqs(o) ==
    UNION {[1..n -> {Object_create(s) : s \in Seeds} \cup {o}] : n \in 0..MaxFold}

\* Object.move(x = 1)
move_text == "translate([1, 0, 0])"

Path == "part.scad"

\* a temporary file that is the final file
temp_path_in_place(path) == path

temp_path(path) == path \o "~"

FileNames == {Path, Path \o "~"}

Absent == [exists |-> FALSE, data |-> <<>>]

EmptyFile == [exists |-> TRUE, data |-> <<>>]

\* what an earlier run left at the final path
OldFile == [exists |-> TRUE, data |-> <<Line("sphere();")>>]

----------------------------------------------------------------------------
(* The script: building an Object and writing it *)

Init ==
    /\ \E s \in InitSeeds :
          /\ obj = Object_create(s)
          /\ last = [op |-> "create", args |-> <<>>]
          /\ plain = (s \in Seeds)
    /\ nops = 0
    /\ pc = "idle"
    /\ lines = <<>>
    /\ err = ""
    /\ wpos = 0
    /\ \E f \in {Absent, OldFile} :
          fs = [n \in FileNames |-> IF n = Path THEN f ELSE Absent]
    /\ sel_args = <<>>
    /\ sel_op = ""
    /\ sel_res = void_selection
    /\ sel0 = void_selection
    /\ ninv = 0

\* the operand keeps obj plain
IsPlainOperand(o) ==
    \/ o \in {Object_create(s) : s \in Seeds}
    \/ o = obj /\ plain

Apply(op, args, result, keeps_plain) ==
    /\ pc = "idle"
    /\ nops < MaxOps
    /\ obj' = result
    /\ last' = [op |-> op, args |-> args]
    /\ plain' = keeps_plain
    /\ nops' = nops + 1
    /\ UNCHANGED <<fileVars, selVars>>

Add ==
    \E o \in Operands(obj) :
        Apply("add", <<obj, o>>, Object_add(obj, o), plain /\ IsPlainOperand(o))

Mul ==
    \E o \in Operands(obj) :
        Apply("mul", <<obj, o>>, Object_mul(obj, o), plain /\ IsPlainOperand(o))

Sub ==
    \E o \in Operands(obj) :
        Apply("sub", <<obj, o>>, Object_sub(obj, o), plain /\ IsPlainOperand(o))

Neg == \E o \in {obj} : Apply("neg", <<o>>, Object_neg(o), plain)

Move == \E o \in {obj} : Apply("move", <<o>>, _transform(o, move_text), FALSE)

\* operation(lambda x: true_selector)(obj)
Operation ==
    \E o \in {obj} : Apply("always", <<o>>, compose("always", <<o>>), FALSE)

UnionFold ==
    \E q \in FoldSeqs(obj) :
        Apply("union", q, union(q), \A i \in 1..Len(q) : IsPlainOperand(q[i]))

IntersectFold ==
    \E q \in FoldSeqs(obj) :
        Apply("intersect", q, intersect(q),
              \A i \in 1..Len(q) : IsPlainOperand(q[i]))

\* write_scad enters _write_file: open(temp_path, 'wb')
Open ==
    /\ pc = "idle"
    /\ fs' = [fs EXCEPT ![temp_path(Path)] = EmptyFile]
    /\ pc' = "opened"
    /\ lines' = <<>>
    /\ err' = ""
    /\ wpos' = 0
    /\ UNCHANGED <<objVars, selVars>>

\* the for loop asks compile_scad for its first line; an exception leaves
\* the with blocks without flush, fsync or rename
Compile ==
    /\ pc = "opened"
    /\ LET r == compile_scad(obj)
       IN  /\ err' = r.err
           /\ lines' = r.lines
           /\ pc' = IF r.err # "" THEN "raised" ELSE "writing"
    /\ UNCHANGED <<objVars, wpos, fs, selVars>>

\* file.write((i + '\n').encode())
WriteLine ==
    /\ pc = "writing"
    /\ wpos < Len(lines)
    /\ fs' = [fs EXCEPT ![temp_path(Path)].data = Append(@, lines[wpos + 1])]
    /\ wpos' = wpos + 1
    /\ UNCHANGED <<objVars, pc, lines, err, selVars>>

Flush ==
    /\ pc = "writing"
    /\ wpos = Len(lines)
    /\ pc' = "flushed"
    /\ UNCHANGED <<objVars, lines, err, wpos, fs, selVars>>

Fsync ==
    /\ pc = "flushed"
    /\ pc' = "synced"
    /\ UNCHANGED <<objVars, lines, err, wpos, fs, selVars>>

Close ==
    /\ pc = "synced"
    /\ pc' = "closed"
    /\ UNCHANGED <<objVars, lines, err, wpos, fs, selVars>>

\* os.rename(temp_path, path); write_scad returns and the script ends
Rename ==
    /\ pc = "closed"
    /\ fs' = [n \in FileNames |->
                 IF n = Path THEN fs[temp_path(Path)]
                 ELSE IF n = temp_path(Path) THEN Absent
                 ELSE fs[n]]
    /\ pc' = "done"
    /\ UNCHANGED <<objVars, lines, err, wpos, selVars>>

Next ==
    \/ Add
    \/ Mul
    \/ Sub
    \/ Neg
    \/ Move
    \/ Operation
    \/ UnionFold
    \/ IntersectFold
    \/ Open
    \/ Compile
    \/ WriteLine
    \/ Flush
    \/ Fsync
    \/ Close
    \/ Rename

Spec == Init /\ [][Next]_vars

----------------------------------------------------------------------------
(* The Selection operations on their own *)

\* the Selections handed to the Selection operations: void, the shapes, and
\* their wrappers
SelPool ==
    {void_selection,
     Selection_invert(void_selection),
     Selection_invert(Selection_invert(void_selection)),
     Selection_create(node_a),
     Selection_invert(Selection_create(node_a)),
     Selection_create(node_b)}

SelLists == UNION {[1..n -> SelPool] : n \in 0..MaxList}

InitSel ==
    /\ obj = Object_create(void_selection)
    /\ last = [op |-> "create", args |-> <<>>]
    /\ plain = TRUE
    /\ nops = 0
    /\ pc = "idle"
    /\ lines = <<>>
    /\ err = ""
    /\ wpos = 0
    /\ fs = [n \in FileNames |-> Absent]
    /\ sel_args \in SelLists
    /\ sel_op = ""
    /\ sel0 \in SelPool
    /\ sel_res = sel0
    /\ ninv = 0

SelStep(op, result) ==
    /\ sel_op' = op
    /\ sel_res' = result
    /\ sel0' = result
    /\ ninv' = 0
    /\ UNCHANGED <<sel_args, objVars, fileVars>>

DoIntersect == sel_op = "" /\ SelStep("intersect", Selection_intersect(sel_args))

DoUnion == sel_op = "" /\ SelStep("union", Selection_union(sel_args))

DoInvert ==
    /\ ninv < MaxInvert
    /\ sel_res' = Selection_invert(sel_res)
    /\ ninv' = ninv + 1
    /\ UNCHANGED <<sel_args, sel_op, sel0, objVars, fileVars>>

NextSel ==
    \/ DoIntersect
    \/ DoUnion
    \/ DoInvert

SpecSel == InitSel /\ [][NextSel]_vars

----------------------------------------------------------------------------
(* The regions the values denote, over a small space of points *)

NumPoints == 3

Points == 1..NumPoints

\* the region of a primitive shape
PrimRegion(text) ==
    CASE text = "cube()" -> {1, 2}
      [] text = "sphere()" -> {2}
      [] OTHER -> {}

\* a transform moves the points of its child
Moved(p) == (p % NumPoints) + 1

\* the region a Node renders: OpenSCAD's union, intersection and difference
RECURSIVE Region(_)
Region(n) ==
    IF n.kind = "primitive" THEN PrimRegion(n.text)
    ELSE LET r == [i \in 1..Len(n.nodes) |-> Region(n.nodes[i])]
         IN  CASE n.text = "union()" -> UNION Range(r)
               [] n.text = "intersection()" ->
                      {p \in Points : \A i \in 1..Len(r) : p \in r[i]}
               [] n.text = "difference()" ->
                      r[1] \ UNION {r[i] : i \in 2..Len(r)}
               [] OTHER -> {Moved(q) : q \in r[1]}

\* the region a Selection denotes: nothing for void, everything for inverted
\* void, the complement of the node for an inverted node selection
SelRegion(s) ==
    IF void(s) THEN (IF inverted(s) THEN Points ELSE {})
    ELSE IF inverted(s) THEN Points \ Region(node(s)) ELSE Region(node(s))

\* the selections of the keys are pairwise disjoint and cover the space
IsPartition(o) ==
    /\ \A i, j \in 1..Len(o) :
          i # j => SelRegion(o[i].selection) \cap SelRegion(o[j].selection) = {}
    /\ UNION {SelRegion(o[i].selection) : i \in 1..Len(o)} = Points

SugarOps == {"add", "mul", "sub", "neg", "union", "intersect"}

----------------------------------------------------------------------------
(* C1 *)

\* C1: every Object returned by Object.compose through +, *, -, unary - or
\* the union / intersect folds, applied to Objects created from void or node
\* selections, is a partition of the space: the regions of its selections
\* are pairwise disjoint and cover every point.
C1_Partition ==
    (last.op \in SugarOps /\ plain) => IsPartition(obj)

----------------------------------------------------------------------------
(* Reading the output of compile_scad *)

\* compile_scad has just yielded its lines for obj
Compiled == pc = "writing" /\ wpos = 0

\* the root node compile_scad starts from
RootNode == node(root_selection(obj))

RECURSIVE Subterms(_)
Subterms(n) ==
    {n} \cup UNION {Subterms(child_nodes(n)[j]) : j \in 1..Len(child_nodes(n))}

\* the child positions reachable from n, as paths of child indexes
RECURSIVE Paths(_)
Paths(n) ==
    {<<>>} \cup UNION {{<<j>> \o q : q \in Paths(child_nodes(n)[j])} :
                        j \in 1..Len(child_nodes(n))}

RECURSIVE NodeAt(_, _)
NodeAt(n, q) == IF q = <<>> THEN n ELSE NodeAt(child_nodes(n)[Head(q)], Tail(q))

\* the child positions below root that hold the structure s
TreePositions(root, s) == {q \in Paths(root) \ {<<>>} : NodeAt(root, q) = s}

\* the child positions of the structures in subs that hold s
DagPositions(subs, s) ==
    UNION {{<<n, j>> : j \in {j \in 1..Len(child_nodes(n)) : child_nodes(n)[j] = s}} :
           n \in subs}

DeclLine(k) == Line("module node_" \o ToString(k) \o "()")

CallText(k) == "node_" \o ToString(k) \o "();"

ModuleNumbers == 1..Len(lines)

DeclPositions(k) == {i \in 1..Len(lines) : lines[i] = DeclLine(k)}

AllDeclPositions == UNION {DeclPositions(k) : k \in ModuleNumbers}

CallPositions(k) == {i \in 1..Len(lines) : lines[i].text = CallText(k)}

\* the line is part of a module declaration, not of the root program
InDeclaration(i) == \E d \in AllDeclPositions : d <= i

\* every structure below root, written as a call when it has a module
CallsFor(root) ==
    LET ms == modules_of(root)
    IN  [i \in Subterms(root) |->
            IF \E k \in 1..Len(ms) : ms[k].node = i
            THEN _Module_reference(ms[CHOOSE k \in 1..Len(ms) : ms[k].node = i])
            ELSE i]

\* the lines from position i on are the block b, at the depth of line i
BlockAt(b, i) ==
    /\ i >= 1
    /\ i + Len(b) - 1 <= Len(lines)
    /\ \A j \in 1..Len(b) :
          lines[i + j - 1] = [b[j] EXCEPT !.indent = @ + lines[i].indent]

BlockPositions(b) == {i \in 1..Len(lines) : BlockAt(b, i)}

\* the declarations among decls whose body is the block b
DeclsWithBody(decls, b) ==
    {d \in decls : BlockAt(b, d + 1) /\ lines[d + 1].indent = 1}

\* one declaration has the body b, and b appears nowhere else
DeclaredOnce(decls, b) ==
    LET ds == DeclsWithBody(decls, b)
    IN  /\ Cardinality(ds) = 1
        /\ \A i \in BlockPositions(b) : i - 1 \in ds

\* the module with the body b has one declaration and is called n times
CalledTimes(decls, b, n) ==
    LET ds == DeclsWithBody(decls, b)
    IN  \A d \in ds : \A k \in ModuleNumbers :
            lines[d] = DeclLine(k) =>
                /\ Cardinality(DeclPositions(k)) = 1
                /\ Cardinality(CallPositions(k)) = n

----------------------------------------------------------------------------
(* C2 *)

\* C2 as stated: a structure held at two distinct child positions reachable
\* from the root has exactly one module declaration in the output, and no
\* occurrence of it is written inline outside that declaration.
C2_Original ==
    Compiled =>
        LET root == RootNode
            calls == CallsFor(root)
            decls == AllDeclPositions
        IN  \A s \in Subterms(root) :
                Cardinality(TreePositions(root, s)) >= 2 =>
                    DeclaredOnce(decls, Node_iter_lines(s, calls))

\* C2 amended: a structure held at two distinct child positions of the
\* distinct structures below the root (the positions walk_nodes visits) has
\* exactly one module declaration, its text appears only as the body of that
\* declaration, and each of those positions is rendered as one call to it.
C2_Dedup ==
    Compiled =>
        LET root == RootNode
            subs == Subterms(root)
            calls == CallsFor(root)
            decls == AllDeclPositions
        IN  \A s \in subs :
                LET n == Cardinality(DagPositions(subs, s))
                    b == Node_iter_lines(s, calls)
                IN  n >= 2 => DeclaredOnce(decls, b) /\ CalledTimes(decls, b, n)

\* a compiled root in which a composite structure is shared and another
\* structure sits at two tree positions but at one position of the shared one
C2_Witness ==
    /\ Compiled
    /\ LET root == RootNode
           subs == Subterms(root)
       IN  \E s \in subs :
              /\ s.kind = "composite"
              /\ Cardinality(DagPositions(subs, s)) >= 2
              /\ \E c \in Subterms(s) :
                    /\ Cardinality(TreePositions(root, c)) >= 2
                    /\ Cardinality(DagPositions(subs, c)) = 1

----------------------------------------------------------------------------
(* C3 *)

\* C3 as stated: no module declaration contains a call to a module whose
\* declaration appears later in the output.
C3_Original ==
    Compiled =>
        \A k \in ModuleNumbers : \A i \in CallPositions(k) :
            InDeclaration(i) => \A d \in DeclPositions(k) : d < i

\* C3 amended: the output is ordered the other way round: every call to a
\* module, in the root program or in a module declaration, comes before
\* the one declaration of that module, so no module declaration contains a
\* call to a module declared earlier.
C3_UseBeforeDeclaration ==
    Compiled =>
        \A k \in ModuleNumbers : \A i \in CallPositions(k) :
            /\ DeclPositions(k) # {}
            /\ \A d \in DeclPositions(k) : i < d

\* a compiled output in which a module declaration calls another module
C3_Witness ==
    /\ Compiled
    /\ \E k \in ModuleNumbers : \E i \in CallPositions(k) : InDeclaration(i)

----------------------------------------------------------------------------
(* C4 *)

\* the selection of the truthy key of the Object handed to compile_scad
TruthySelection == get_selection(obj, true_selector)

\* write_scad has asked compile_scad for its first line
AfterCompile == pc \in {"raised", "writing", "flushed", "synced", "closed"}

\* C4: when the selection of the truthy key is void or inverted,
\* compile_scad raises before it yields a line: no line is produced and
\* nothing is written.
C4_DegenerateRoot ==
    (AfterCompile /\ (void(TruthySelection) \/ inverted(TruthySelection))) =>
        /\ pc = "raised"
        /\ err # ""
        /\ lines = <<>>
        /\ fs[temp_path(Path)].data = <<>>

\* compile_scad has raised for an Object whose true selection is an
\* inverted node selection
C4_Witness ==
    /\ pc = "raised"
    /\ inverted(TruthySelection)
    /\ ~void(TruthySelection)

----------------------------------------------------------------------------
(* C5 *)

\* obj is Object.create(x) * Object.create(Selection.invert(x)), x not void
IsComplementProduct ==
    /\ last.op = "mul"
    /\ LET x == get_selection(last.args[1], true_selector)
       IN  /\ ~void(x)
           /\ last.args[1] = Object_create(x)
           /\ last.args[2] = Object_create(Selection_invert(x))

\* C5 as stated: the true selection of create(A) * create(invert(A)) is
\* void and compiling it raises the void-root error.
C5_Original ==
    IsComplementProduct =>
        /\ void(TruthySelection)
        /\ AfterCompile => pc = "raised" /\ err = "The top-level node is void."

\* C5 amended: the true selection of create(A) * create(invert(A)) is a
\* non-void, non-inverted node selection whose node is the difference of
\* A's node with itself, which renders the empty region; compiling it
\* raises nothing and emits that difference.
C5_ComplementProduct ==
    IsComplementProduct =>
        LET n == node(get_selection(last.args[1], true_selector))
        IN  /\ ~void(TruthySelection)
            /\ ~inverted(TruthySelection)
            /\ node(TruthySelection) = Node_compose("difference()", <<n, n>>)
            /\ Region(node(TruthySelection)) = {}
            /\ AfterCompile =>
                  /\ pc # "raised"
                  /\ err = ""
                  /\ lines # <<>>
                  /\ lines[1] = Line("difference() {")

\* a complement product has been compiled
C5_Witness == IsComplementProduct /\ Compiled

----------------------------------------------------------------------------
(* C6 *)

\* C6: the file at the final path changes in one step only, the rename,
\* taken after every compiled line is in the temporary file, flushed,
\* synced and closed; a step in which compile_scad raises, and any step
\* after it, leaves the final path as it was.
C6_AtomicRename ==
    [][/\ fs'[Path] # fs[Path] =>
             /\ pc = "closed"
             /\ err = ""
             /\ lines = compile_scad(obj).lines
             /\ fs[temp_path(Path)] = [exists |-> TRUE, data |-> lines]
             /\ fs'[Path] = fs[temp_path(Path)]
       /\ (pc = "raised" \/ pc' = "raised") => fs'[Path] = fs[Path]]_vars

\* the rename has put a complete program of several lines at the final path
C6_Witness ==
    /\ pc = "done"
    /\ err = ""
    /\ fs[Path].exists
    /\ ~fs[temp_path(Path)].exists
    /\ Len(fs[Path].data) > 1
    /\ fs[Path].data = compile_scad(obj).lines

----------------------------------------------------------------------------
(* C7 *)

\* the number of InvertedSelection wrappers around a Selection
RECURSIVE Depth(_)
Depth(s) == IF s.kind = "inverted" THEN 1 + Depth(s.selection) ELSE 0

SameSelection(x, y) ==
    /\ void(x) = void(y)
    /\ inverted(x) = inverted(y)
    /\ node(x) = node(y)

\* C7 as stated: after an even number of inversions the Selection has the
\* void-ness, node and polarity it started with, and the nesting depth stays
\* within one wrapper of the start however often invert is applied.
C7_Original ==
    /\ ninv % 2 = 0 => SameSelection(sel_res, sel0)
    /\ Depth(sel_res) <= Depth(sel0) + 1

\* C7 amended: after an even number of inversions the Selection has the
\* void-ness, node and polarity it started with, after an odd number the
\* opposite polarity; every application of invert adds one wrapper, so the
\* nesting depth grows by the number of applications.
C7_DoubleNegation ==
    /\ ninv % 2 = 0 => SameSelection(sel_res, sel0)
    /\ ninv % 2 = 1 =>
          /\ void(sel_res) = void(sel0)
          /\ node(sel_res) = node(sel0)
          /\ inverted(sel_res) = ~inverted(sel0)
    /\ Depth(sel_res) = Depth(sel0) + ninv

\* an inverted node selection has been inverted twice
C7_Witness ==
    /\ ninv = 2
    /\ ~void(sel0)
    /\ inverted(sel0)

----------------------------------------------------------------------------
(* C8 *)

IsInvertedVoid(x) == void(x) /\ inverted(x)

HasPlainVoid(selections) ==
    \E k \in 1..Len(selections) : void(selections[k]) /\ ~inverted(selections[k])

HasInvertedVoid(selections) ==
    \E k \in 1..Len(selections) : IsInvertedVoid(selections[k])

RECURSIVE WithoutInvertedVoid(_)
WithoutInvertedVoid(selections) ==
    IF selections = <<>> THEN <<>>
    ELSE (IF IsInvertedVoid(Head(selections)) THEN <<>> ELSE <<Head(selections)>>)
         \o WithoutInvertedVoid(Tail(selections))

\* sel_res is what the operation op returned for sel_args
Returned(op) == sel_op = op /\ ninv = 0

\* C8 as stated: an intersection over a list with a non-inverted void is
\* void, and a union over a list with an inverted void equals the union of
\* the list without the inverted-void terms.
C8_Original ==
    /\ (Returned("intersect") /\ HasPlainVoid(sel_args)) =>
          void(sel_res) /\ ~inverted(sel_res)
    /\ (Returned("union") /\ HasInvertedVoid(sel_args)) =>
          SameSelection(sel_res, Selection_union(WithoutInvertedVoid(sel_args)))

\* C8 amended: an intersection over a list with a non-inverted void is
\* void, and a union over a list with an inverted void is the inverted
\* void (everything) whatever the other terms are: the inverted void
\* dominates the union instead of dropping out of it.
C8_VoidAbsorption ==
    /\ (Returned("intersect") /\ HasPlainVoid(sel_args)) =>
          void(sel_res) /\ ~inverted(sel_res)
    /\ (Returned("union") /\ HasInvertedVoid(sel_args)) =>
          void(sel_res) /\ inverted(sel_res)

\* a union over an inverted void and a shape has been computed
C8_Witness ==
    /\ Returned("union")
    /\ HasInvertedVoid(sel_args)
    /\ \E k \in 1..Len(sel_args) : ~void(sel_args[k])

----------------------------------------------------------------------------
(* C9 *)

\* obj is Object.create(x) + Object.create(x), x neither void nor inverted
IsSelfUnion ==
    /\ last.op = "add"
    /\ last.args[1] = last.args[2]
    /\ LET x == get_selection(last.args[1], true_selector)
       IN  /\ ~void(x)
           /\ ~inverted(x)
           /\ last.args[1] = Object_create(x)

\* C9: the true selection of create(A) + create(A) is neither void nor
\* inverted, compiles without error, and the root node compile_scad renders
\* for it covers exactly the region of the root node it renders for
\* create(A), the region of A's node.
C9_SelfUnion ==
    IsSelfUnion =>
        LET x == get_selection(last.args[1], true_selector)
        IN  /\ ~void(TruthySelection)
            /\ ~inverted(TruthySelection)
            /\ Region(node(TruthySelection)) = Region(node(x))
            /\ root_error(root_selection(obj)) = ""
            /\ root_error(root_selection(last.args[1])) = ""
            /\ Region(node(root_selection(obj)))
                   = Region(node(root_selection(last.args[1])))
            /\ Region(node(root_selection(obj))) = Region(node(x))
            /\ AfterCompile => pc # "raised" /\ err = "" /\ lines # <<>>

\* a self-union has been compiled
C9_Witness == IsSelfUnion /\ Compiled

----------------------------------------------------------------------------
(* C10 *)

ComposeOps == {"add", "mul", "sub", "neg", "always"}

\* the key of the Object o whose selection holds the point p
KeyOf(o, p) ==
    o[CHOOSE i \in 1..Len(o) : p \in SelRegion(o[i].selection)].selector

\* the points whose keys in the input Objects combine to the selector s
PointsOf(operation, objects, s) ==
    {p \in Points :
        apply(operation, [j \in 1..Len(objects) |-> KeyOf(objects[j], p)]) = s}

\* C10: for input Objects that are partitions and every selector s of the
\* result of Object.compose, the inverted form over the other groups and
\* the direct form over the groups of s denote the same region, and the
\* selection returned for s is the set of points whose keys combine to s.
C10_Minimization ==
    (/\ last.op \in ComposeOps
     /\ \A j \in 1..Len(last.args) : IsPartition(last.args[j])) =>
        LET groups_by_selector == _tally(iter_selections(last.op, last.args))
        IN  \A i \in 1..Len(obj) :
                LET s == obj[i].selector
                    groups == groups_of(groups_by_selector, s)
                    inverse_groups == inverse_groups_of(groups_by_selector, s)
                IN  /\ SelRegion(Selection_invert(combine(inverse_groups)))
                         = SelRegion(combine(groups))
                    /\ SelRegion(obj[i].selection)
                         = PointsOf(last.op, last.args, s)

----------------------------------------------------------------------------
(* C11 *)

\* the lines of the root program: those before the first declaration
RootProgram ==
    {i \in 1..Len(lines) : lines[i].text # "" /\ ~InDeclaration(i)}

\* C11: in the output of compile_scad every module call node_k(), in the
\* root program or in a module body, has exactly one declaration
\* "module node_k()"; every declared module is called at least twice over
\* the root program and the module bodies together; and the root node is
\* rendered inline: the output starts with the root's own block at depth 0,
\* its first line is no module call, and no declaration has the root's block
\* as its body.
C11_ReferencesResolve ==
    Compiled =>
        LET root == RootNode
            decls == AllDeclPositions
            b == Node_iter_lines(root, CallsFor(root))
        IN  /\ \A k \in ModuleNumbers :
                  /\ CallPositions(k) # {} => Cardinality(DeclPositions(k)) = 1
                  /\ DeclPositions(k) # {} => Cardinality(CallPositions(k)) >= 2
            /\ BlockAt(b, 1)
            /\ lines[1].indent = 0
            /\ RootProgram = 1..Len(b)
            /\ \A k \in ModuleNumbers : lines[1].text # CallText(k)
            /\ DeclsWithBody(decls, b) = {}

\* a compiled output with two declared modules, one called from the root
\* program and one called from the body of a declaration
C11_Witness ==
    /\ Compiled
    /\ \E k1, k2 \in ModuleNumbers :
          /\ k1 # k2
          /\ DeclPositions(k1) # {}
          /\ DeclPositions(k2) # {}
          /\ \E i \in CallPositions(k1) : i \in RootProgram
          /\ \E i \in CallPositions(k2) : InDeclaration(i)

====
